---- MODULE Spec2Model ----
(***************************************************************************)
(* Bank Statement Convertor (src/app.py): the login gate, the statement    *)
(* pipeline and the identifier extractors, modelled at character level.    *)
(*                                                                         *)
(* A text is a sequence of characters; a character is a string naming it:  *)
(*   "0".."9", "a".."z", "A".."Z" and ASCII punctuation stand for          *)
(*   themselves; "C_xx" / "c_xx" is the capital / small Cyrillic letter    *)
(*   whose Unicode name is XX ("C_ve" = U+0412, "c_ui" = U+0456            *)
(*   BYELORUSSIAN-UKRAINIAN I, "c_yi" = U+0457, "c_uie" = U+0454,          *)
(*   "c_gheup" = U+0491, "c_io" = U+0451);                                 *)
(*   "numero" = U+2116, "nbsp" = U+00A0, "bom" = U+FEFF, "tab" = U+0009,   *)
(*   "emdash" = U+2014, "apos" = U+0027, "grave" = U+0060,                 *)
(*   "ar7" = U+0667 ARABIC-INDIC DIGIT SEVEN, "sup2" = U+00B2 SUPERSCRIPT  *)
(*   TWO.                                                                  *)
(* Python's "" is the empty sequence.                                      *)
(***************************************************************************)
EXTENDS Integers, Sequences, FiniteSets, TLC

VARIABLES
    auth,       \* st.session_state["auth"]: "absent" or "True"
    screen,     \* what the last script run rendered: "login" or "app"
    loginError, \* the last run showed "Incorrect login or password"
    lastSubmit, \* the login form values of the last run, or NoSubmit
    uploaded,   \* the file_uploader's value: NoFile or a file
    fault,      \* what goes wrong when the upload is read or written, if anything
    status,     \* how the last run's `if uploaded:` block ended
    missing,    \* the missing logical fields reported by st.error
    detected,   \* the headers listed by st.write("Detected headers:", ...)
    result,     \* the `result` frame: the sequence of output records
    counters,   \* the Summary numbers
    downloads,  \* the files offered by st.download_button
    fn,         \* the helper a direct call applied ("idle" before the call)
    arg,        \* the text the helper is called with
    ret         \* what the call returned

vars == <<auth, screen, loginError, lastSubmit, uploaded, fault, status, missing,
          detected, result, counters, downloads, fn, arg, ret>>

appVars == <<auth, screen, loginError, lastSubmit, uploaded, fault, status, missing,
             detected, result, counters, downloads>>

----------------------------------------------------------------------------
(* Characters and the classes Python's re and str put them in *)

AsciiDigits == {"0", "1", "2", "3", "4", "5", "6", "7", "8", "9"}

\* str.isdecimal(), and \d of a str pattern: the Unicode category Nd
DecimalDigits == AsciiDigits \cup {"ar7"}

\* str.isdigit(): the decimals and the digits that are no decimals
IsDigitChars == DecimalDigits \cup {"sup2"}

LatinLower == {"a", "b", "c", "d", "e", "f", "g", "h", "i", "j", "k", "l", "m",
               "n", "o", "p", "q", "r", "s", "t", "u", "v", "w", "x", "y", "z"}

LatinUpper == {"A", "B", "C", "D", "E", "F", "G", "H", "I", "J", "K", "L", "M",
               "N", "O", "P", "Q", "R", "S", "T", "U", "V", "W", "X", "Y", "Z"}

\* U+0430..U+044F
CyrLowerRange == {"c_a", "c_be", "c_ve", "c_ghe", "c_de", "c_ie", "c_zhe", "c_ze",
                  "c_i", "c_shorti", "c_ka", "c_el", "c_em", "c_en", "c_o", "c_pe",
                  "c_er", "c_es", "c_te", "c_u", "c_ef", "c_ha", "c_tse", "c_che",
                  "c_sha", "c_shcha", "c_hard", "c_yeru", "c_soft", "c_e", "c_yu",
                  "c_ya"}

\* U+0410..U+042F
CyrUpperRange == {"C_a", "C_be", "C_ve", "C_ghe", "C_de", "C_ie", "C_zhe", "C_ze",
                  "C_i", "C_shorti", "C_ka", "C_el", "C_em", "C_en", "C_o", "C_pe",
                  "C_er", "C_es", "C_te", "C_u", "C_ef", "C_ha", "C_tse", "C_che",
                  "C_sha", "C_shcha", "C_hard", "C_yeru", "C_soft", "C_e", "C_yu",
                  "C_ya"}

UkrLower == {"c_ui", "c_yi", "c_uie", "c_gheup"}

UkrUpper == {"C_ui", "C_yi", "C_uie", "C_gheup"}

Letters == LatinLower \cup LatinUpper \cup CyrLowerRange \cup CyrUpperRange
           \cup UkrLower \cup UkrUpper \cup {"c_io", "C_io"}

\* \w of a str pattern: str.isalnum() or "_"
WordChars == Letters \cup IsDigitChars \cup {"_"}

\* \s of a str pattern
SpaceChars == {" ", "nbsp", "tab"}

\* the pairs (capital, small) of the letters the patterns name
CasePairs ==
    { <<"C_a", "c_a">>, <<"C_be", "c_be">>, <<"C_ve", "c_ve">>, <<"C_ghe", "c_ghe">>,
      <<"C_de", "c_de">>, <<"C_ie", "c_ie">>, <<"C_zhe", "c_zhe">>, <<"C_ze", "c_ze">>,
      <<"C_i", "c_i">>, <<"C_shorti", "c_shorti">>, <<"C_ka", "c_ka">>,
      <<"C_el", "c_el">>, <<"C_em", "c_em">>, <<"C_en", "c_en">>, <<"C_o", "c_o">>,
      <<"C_pe", "c_pe">>, <<"C_er", "c_er">>, <<"C_es", "c_es">>, <<"C_te", "c_te">>,
      <<"C_u", "c_u">>, <<"C_ef", "c_ef">>, <<"C_ha", "c_ha">>, <<"C_tse", "c_tse">>,
      <<"C_che", "c_che">>, <<"C_sha", "c_sha">>, <<"C_shcha", "c_shcha">>,
      <<"C_hard", "c_hard">>, <<"C_yeru", "c_yeru">>, <<"C_soft", "c_soft">>,
      <<"C_e", "c_e">>, <<"C_yu", "c_yu">>, <<"C_ya", "c_ya">>, <<"C_ui", "c_ui">>,
      <<"C_yi", "c_yi">>, <<"C_uie", "c_uie">>, <<"C_gheup", "c_gheup">>,
      <<"C_io", "c_io">>, <<"I", "i">>, <<"D", "d">>, <<"E", "e">>, <<"N", "n">> }

\* the small letter of a capital one (re.IGNORECASE compares case-folded)
LowerOf == [c \in {p[1] : p \in CasePairs} |-> (CHOOSE p \in CasePairs : p[1] = c)[2]]

Fold(c) == IF c \in DOMAIN LowerOf THEN LowerOf[c] ELSE c

----------------------------------------------------------------------------
(* Helpers over texts *)

\* the character at position i, "" outside the text
At(s, i) == IF i \in 1..Len(s) THEN s[i] ELSE ""

Slice(s, i, j) == SubSeq(s, i, j)

\* \b between positions i-1 and i
WordBoundary(s, i) == (At(s, i - 1) \in WordChars) # (At(s, i) \in WordChars)

\* the characters s[i..i+n-1] exist and all lie in cls
AllIn(s, i, n, cls) == i >= 1 /\ i + n - 1 <= Len(s) /\ \A k \in i..(i + n - 1) : s[k] \in cls

\* where a greedy cls* that starts at i ends (the first position not in cls)
RECURSIVE SkipClass(_, _, _)
SkipClass(s, i, cls) == IF At(s, i) \in cls THEN SkipClass(s, i + 1, cls) ELSE i

\* a literal of a re.IGNORECASE pattern at position i; lit is given case-folded
LitAt(s, i, lit) ==
    /\ i >= 1
    /\ i + Len(lit) - 1 <= Len(s)
    /\ \A k \in 1..Len(lit) : Fold(s[i + k - 1]) = lit[k]

Min(S) == CHOOSE x \in S : \A y \in S : x <= y

Max(S) == CHOOSE x \in S : \A y \in S : x >= y

----------------------------------------------------------------------------
(* The patterns (src/app.py:46-63), each as "the end state of a match that *)
(* starts at i": the position of its group, or 0 when there is no match    *)

\* the tail without the optional numero sign
AfterNumero_SpacesOnly(s, i) == SkipClass(s, i, SpaceChars)

\* the shared tail  \s*(numero)?\s*  of RE_VD and RE_VP, from position i
AfterNumero(s, i) ==
    LET j1 == SkipClass(s, i, SpaceChars)
        j2 == IF At(s, j1) = "numero" THEN j1 + 1 ELSE j1
    IN SkipClass(s, j2, SpaceChars)

\* (?i)\bVD\s*numero?\s*(\d{5})\b
RE_VD_at(s, i) ==
    LET g == AfterNumero(s, i + 2)
    IN IF /\ WordBoundary(s, i)
          /\ LitAt(s, i, <<"c_ve", "c_de">>)
          /\ AllIn(s, g, 5, DecimalDigits)
          /\ WordBoundary(s, g + 5)
       THEN g ELSE 0

\* (?i)vp\s*numero?\s*([0-9]{8})
RE_VP_at(s, i) ==
    LET g == AfterNumero(s, i + 2)
    IN IF /\ LitAt(s, i, <<"c_ve", "c_pe">>)
          /\ AllIn(s, g, 8, AsciiDigits)
       THEN g ELSE 0

\* ;\s*(?:numero\s*)?(6\d{7})\s*;
RE_VP_SEMI_at(s, i) ==
    LET j1 == SkipClass(s, i + 1, SpaceChars)
        g  == IF At(s, j1) = "numero" THEN SkipClass(s, j1 + 1, SpaceChars) ELSE j1
    IN IF /\ At(s, i) = ";"
          /\ At(s, g) = "6"
          /\ AllIn(s, g + 1, 7, DecimalDigits)
          /\ At(s, SkipClass(s, g + 8, SpaceChars)) = ";"
       THEN g ELSE 0

\* \b(\d{10})\b
RE_IPN_10_at(s, i) ==
    IF /\ WordBoundary(s, i)
       /\ AllIn(s, i, 10, DecimalDigits)
       /\ WordBoundary(s, i + 10)
    THEN i ELSE 0

----------------------------------------------------------------------------
(* The extractors *)

\* pattern.search: the leftmost start at which the pattern matches, 0 if none
SearchVD(s) ==
    LET hits == {i \in 1..Len(s) : RE_VD_at(s, i) # 0}
    IN IF hits = {} THEN 0 ELSE Min(hits)

\* extract_vd with a marker window: a match is discarded when vp, ip or isp stands
\* within 10 characters before or after the number
extract_vd_MarkerWindow(text) ==
    LET m == SearchVD(text)
        g == RE_VD_at(text, m)
        near == \E tok \in { <<"c_ui", "c_pe">>, <<"c_i", "c_pe">>, <<"c_i", "c_es", "c_pe">>,
                              <<"c_ve", "c_pe">> } :
                    \E k \in 1..Len(text) :
                        /\ LitAt(text, k, tok)
                        /\ \/ (k >= g - 10 /\ k + Len(tok) - 1 <= g - 1)
                           \/ (k >= g + 5 /\ k + Len(tok) - 1 <= g + 14)
    IN IF m # 0 /\ ~near THEN Slice(text, g, g + 4) ELSE <<>>

extract_vd(text) ==
    LET m == SearchVD(text)
    IN IF m # 0 THEN LET g == RE_VD_at(text, m) IN Slice(text, g, g + 4) ELSE <<>>

SearchVP(s) ==
    LET hits == {i \in 1..Len(s) : RE_VP_at(s, i) # 0}
    IN IF hits = {} THEN 0 ELSE Min(hits)

SearchVP_SEMI(s) ==
    LET hits == {i \in 1..Len(s) : RE_VP_SEMI_at(s, i) # 0}
    IN IF hits = {} THEN 0 ELSE Min(hits)

extract_vp(text) ==
    LET m  == SearchVP(text)
        m2 == SearchVP_SEMI(text)
    IN IF m # 0 THEN LET g == RE_VP_at(text, m) IN Slice(text, g, g + 7)
       ELSE IF m2 # 0 THEN LET g == RE_VP_SEMI_at(text, m2) IN Slice(text, g, g + 7)
       ELSE <<>>

\* int(ch) of a decimal character
DigitValue(c) ==
    CASE c = "0" -> 0 [] c = "1" -> 1 [] c = "2" -> 2 [] c = "3" -> 3 [] c = "4" -> 4
      [] c = "5" -> 5 [] c = "6" -> 6 [] c = "7" -> 7 [] c = "8" -> 8 [] c = "9" -> 9
      [] c = "ar7" -> 7

RECURSIVE WeightedSum(_, _, _)
WeightedSum(d, w, k) ==
    IF k > Len(d) \/ k > Len(w) THEN 0 ELSE d[k] * w[k] + WeightedSum(d, w, k + 1)

\* RNOKPP checksum: weights [-1,5,7,9,4,6,10,5,7] then ((sum % 11) % 10)
ipn_control_digit_first9(d9) ==
    LET weights == <<-1, 5, 7, 9, 4, 6, 10, 5, 7>>
        s == WeightedSum(d9, weights, 1)
    IN (s % 11) % 10

\* "True" / "False", or "ValueError" when int(ch) raises
is_valid_ipn(s) ==
    IF ~(Len(s) > 0 /\ (\A k \in 1..Len(s) : s[k] \in IsDigitChars) /\ Len(s) = 10)
    THEN "False"
    ELSE IF \E k \in 1..Len(s) : s[k] \notin DecimalDigits
    THEN "ValueError"
    ELSE LET d == [k \in 1..Len(s) |-> DigitValue(s[k])]
         IN IF d[10] = ipn_control_digit_first9(SubSeq(d, 1, 9)) THEN "True" ELSE "False"

\* RE_IPN_10.finditer from position i on: the first candidate that validates
RECURSIVE FirstValidFrom(_, _)
FirstValidFrom(s, i) ==
    IF i > Len(s) THEN <<>>
    ELSE IF RE_IPN_10_at(s, i) = 0 THEN FirstValidFrom(s, i + 1)
    ELSE LET cand == Slice(s, i, i + 9)
         IN IF is_valid_ipn(cand) = "True" THEN cand ELSE FirstValidFrom(s, i + 10)

extract_ipn(text) == FirstValidFrom(text, 1)

\* [\w\-]
WordOrHyphen == WordChars \cup {"-"}

\* [\s:;#numero\-]
CaseSeparators == SpaceChars \cup {":", ";", "#", "numero", "-"}

\* (?iu)\b[\w\-]*[iden-root][\w\-]*\b[\s:;#numero\-]*([12]\d{5}), the engine's
\* match that starts at i: the greedy [\w\-]* take the longest prefix a and then
\* the longest tail b from which the rest still matches
RE_CASEID_at(s, i) ==
    LET RootAt(a) == /\ Fold(At(s, a)) \in {"c_ui", "c_i", "i"}
                     /\ LitAt(s, a + 1, <<"c_de", "c_ie", "c_en">>)
        GroupAfter(b) == SkipClass(s, b, CaseSeparators)
        TailOk(b) == /\ WordBoundary(s, b)
                     /\ At(s, GroupAfter(b)) \in {"1", "2"}
                     /\ AllIn(s, GroupAfter(b) + 1, 5, DecimalDigits)
        Tails(a) == {b \in (a + 4)..SkipClass(s, a + 4, WordOrHyphen) : TailOk(b)}
        Roots == {a \in i..SkipClass(s, i, WordOrHyphen) : RootAt(a) /\ Tails(a) # {}}
    IN IF WordBoundary(s, i) /\ Roots # {}
       THEN GroupAfter(Max(Tails(Max(Roots)))) ELSE 0

SearchCASEID(s) ==
    LET hits == {i \in 1..Len(s) : RE_CASEID_at(s, i) # 0}
    IN IF hits = {} THEN 0 ELSE Min(hits)

extract_caseid(text) ==
    LET m == SearchCASEID(text)
    IN IF m # 0 THEN LET g == RE_CASEID_at(text, m) IN Slice(text, g, g + 5) ELSE <<>>

\* [A-YAa-yaA-Za-z + the Ukrainian letters], the first character of a name word;
\* under (?i) the capital class matches the small letters too
NameFirst == CyrUpperRange \cup CyrLowerRange \cup LatinUpper \cup LatinLower
             \cup UkrUpper \cup UkrLower

\* the class of the following characters: the letters, apostrophe, grave and hyphen
NameRest == NameFirst \cup {"apos", "grave", "-"}

\* one name word [first][rest]+ at i: the position after it, 0 if none
NameWordEnd(s, i) ==
    IF At(s, i) \in NameFirst /\ At(s, i + 1) \in NameRest
    THEN SkipClass(s, i + 1, NameRest) ELSE 0

\* \s+ and a name word at i: the position after the word, 0 if none
NextNameWordEnd(s, i) ==
    IF At(s, i) \in SpaceChars THEN NameWordEnd(s, SkipClass(s, i, SpaceChars)) ELSE 0

\* NAME_AFTER_BORZHNIK at i: <<start, end>> of its group, <<0, 0>> if no match
NAME_AFTER_BORZHNIK_at(s, i) ==
    LET colon == SkipClass(s, i + 7, SpaceChars)
        g  == SkipClass(s, colon + 1, SpaceChars)
        e1 == NameWordEnd(s, g)
        e2 == IF e1 = 0 THEN 0 ELSE NextNameWordEnd(s, e1)
        e3 == IF e2 = 0 THEN 0 ELSE NextNameWordEnd(s, e2)
    IN IF /\ LitAt(s, i, <<"c_be", "c_o", "c_er", "c_zhe", "c_en", "c_i", "c_ka">>)
          /\ At(s, colon) = ":"
          /\ e2 # 0
       THEN <<g, (IF e3 # 0 THEN e3 ELSE e2) - 1>> ELSE <<0, 0>>

SearchNAME(s) ==
    LET hits == {i \in 1..Len(s) : NAME_AFTER_BORZHNIK_at(s, i)[1] # 0}
    IN IF hits = {} THEN 0 ELSE Min(hits)

\* str.strip() for the whitespace of this alphabet
RECURSIVE RStrip(_)
RStrip(s) == IF Len(s) > 0 /\ s[Len(s)] \in SpaceChars THEN RStrip(SubSeq(s, 1, Len(s) - 1)) ELSE s

RECURSIVE LStrip(_)
LStrip(s) == IF Len(s) > 0 /\ s[1] \in SpaceChars THEN LStrip(Tail(s)) ELSE s

Strip(s) == LStrip(RStrip(s))

RECURSIVE RStripDigits(_)
RStripDigits(s) ==
    IF Len(s) > 0 /\ s[Len(s)] \in DecimalDigits THEN RStripDigits(SubSeq(s, 1, Len(s) - 1)) ELSE s

\* re.sub(r"\s*\d+\s*$", "", s): drop a trailing digit run with the spaces around it
DropTrailingDigits(s) ==
    LET t == RStrip(s)
    IN IF Len(t) > 0 /\ t[Len(t)] \in DecimalDigits THEN RStrip(RStripDigits(t)) ELSE s

extract_name(text) ==
    LET m == SearchNAME(text)
    IN IF m = 0 THEN <<>>
       ELSE LET g == NAME_AFTER_BORZHNIK_at(text, m)
            IN Strip(DropTrailingDigits(Slice(text, g[1], g[2])))

----------------------------------------------------------------------------
(* The frame helpers and normalizers (src/app.py:29-44, 110-123) *)

\* a missing cell of the frame
NaN == <<"NaN">>

\* str(x) / astype(str): a missing cell prints as nan
Str(cell) == IF cell = NaN THEN <<"n", "a", "n">> ELSE cell

\* str.replace(old, new) for single characters
Replace(s, old, new) == [k \in 1..Len(s) |-> IF s[k] = old THEN new ELSE s[k]]

Remove(s, cls) == SelectSeq(s, LAMBDA c : c \notin cls)

\* re.sub(r"\s+", " ", s)
RECURSIVE Collapse(_)
Collapse(s) ==
    IF s = <<>> THEN <<>>
    ELSE IF s[1] \in SpaceChars
    THEN <<" ">> \o Collapse(SubSeq(s, SkipClass(s, 1, SpaceChars), Len(s)))
    ELSE <<s[1]>> \o Collapse(Tail(s))

\* Normalize header: strip spaces/NBSP/BOM and collapse whitespace
clean_header(s) == Strip(Collapse(Remove(Replace(s, "nbsp", " "), {"bom"})))

NoCol == <<>>

\* Pick the first existing column from candidates; NoCol is Python's None
RECURSIVE pick_col(_, _)
pick_col(columns, candidates) ==
    IF candidates = <<>> THEN NoCol
    ELSE IF \E k \in 1..Len(columns) : columns[k] = Head(candidates) THEN Head(candidates)
    ELSE pick_col(columns, Tail(candidates))

NotANumber == [nan |-> TRUE, num |-> 0, scale |-> 0]

RECURSIVE DigitsValue(_)
DigitsValue(ds) ==
    IF ds = <<>> THEN 0 ELSE 10 * DigitsValue(SubSeq(ds, 1, Len(ds) - 1)) + DigitValue(ds[Len(ds)])

\* pd.to_numeric(errors="coerce") of one text: [-]digits[.digits] with at least
\* one digit is the number num / 10^scale, anything else is NaN
to_numeric(s) ==
    LET neg  == Len(s) > 0 /\ s[1] = "-"
        body == IF neg THEN Tail(s) ELSE s
        dots == {k \in 1..Len(body) : body[k] = "."}
        dot  == IF dots = {} THEN Len(body) + 1 ELSE Min(dots)
        ip   == SubSeq(body, 1, dot - 1)
        fp   == SubSeq(body, dot + 1, Len(body))
    IN IF /\ Cardinality(dots) <= 1
          /\ Len(ip) + Len(fp) >= 1
          /\ \A k \in 1..Len(ip) : ip[k] \in AsciiDigits
          /\ \A k \in 1..Len(fp) : fp[k] \in AsciiDigits
       THEN [nan |-> FALSE,
             num |-> (IF neg THEN -1 ELSE 1) * DigitsValue(ip \o fp),
             scale |-> Len(fp)]
       ELSE NotANumber

\* Normalize amounts: remove NBSP/spaces, ',' -> '.', drop non-numeric, then to numeric
parse_amount(cell) ==
    LET s1 == Replace(Str(cell), "nbsp", " ")
        s2 == Remove(s1, {" "})
        s3 == Replace(s2, ",", ".")
        s4 == SelectSeq(s3, LAMBDA c : c \in DecimalDigits \cup {".", "-"})
    IN to_numeric(s4)

DaysInMonth(m, y) ==
    IF m \in {4, 6, 9, 11} THEN 30
    ELSE IF m # 2 THEN 31
    ELSE IF (y % 4 = 0 /\ y % 100 # 0) \/ y % 400 = 0 THEN 29 ELSE 28

NaT == [nat |-> TRUE, day |-> 0, month |-> 0, year |-> 0]

\* pd.to_datetime(dayfirst=True, errors="coerce") for texts shaped DD.MM.YYYY;
\* every other text the statements of this model carry fails to parse
normalize_date_series(cell) ==
    LET s == Str(cell)
        d == DigitsValue(SubSeq(s, 1, 2))
        m == DigitsValue(SubSeq(s, 4, 5))
        y == DigitsValue(SubSeq(s, 7, 10))
    IN IF /\ Len(s) = 10
          /\ \A k \in {1, 2, 4, 5, 7, 8, 9, 10} : s[k] \in AsciiDigits
          /\ s[3] = "." /\ s[6] = "."
          /\ m \in 1..12 /\ d \in 1..DaysInMonth(m, y)
       THEN [nat |-> FALSE, day |-> d, month |-> m, year |-> y]
       ELSE NaT

NA == [na |-> TRUE, v |-> 0]

\* pd.to_numeric(errors="coerce").astype("Int64") of an extracted identifier
ToInt64(s) == IF s = <<>> THEN NA ELSE [na |-> FALSE, v |-> DigitsValue(s)]

----------------------------------------------------------------------------
(* The statement pipeline (src/app.py:130-267) *)

NoCounters == [total_rows |-> 0, credit_pos_rows |-> 0, cnt_vp |-> 0, cnt_vd |-> 0,
               cnt_ipn |-> 0, cnt_caseid_found |-> 0, cnt_nothing_found |-> 0]

COL_Data == <<"C_de", "c_a", "c_te", "c_a">>

COL_DataOperatsii == <<"C_de", "c_a", "c_te", "c_a", " ", "c_o", "c_pe", "c_ie", "c_er", "c_a",
                       "c_tse", "c_ui", "c_yi">>

COL_Zarakhovano == <<"C_ze", "c_a", "c_er", "c_a", "c_ha", "c_o", "c_ve", "c_a", "c_en", "c_o">>

COL_Kredyt == <<"C_ka", "c_er", "c_ie", "c_de", "c_i", "c_te">>

\* purpose_col
COL_Pryznachennia == <<"C_pe", "c_er", "c_i", "c_ze", "c_en", "c_a", "c_che", "c_ie", "c_en",
                       "c_en", "c_ya", " ", "c_pe", "c_el", "c_a", "c_te", "c_ie", "c_zhe",
                       "c_u">>

\* the words of summary_re, case-folded
SummaryPhrases ==
    { << <<"c_ve", "c_es", "c_soft", "c_o", "c_ghe", "c_o">>, <<"c_ze", "c_a">>,
         <<"c_o", "c_be", "c_o", "c_er", "c_o", "c_te", "c_a", "c_em", "c_i">> >>,
      << <<"c_ka", "c_ui", "c_en", "c_tse", "c_ie", "c_ve", "c_i", "c_shorti">>,
         <<"c_ze", "c_a", "c_el", "c_i", "c_sha", "c_o", "c_ka">> >> }

\* the words of a phrase at i with \s+ between them
RECURSIVE PhraseAt(_, _, _)
PhraseAt(s, i, words) ==
    /\ LitAt(s, i, Head(words))
    /\ \/ Len(words) = 1
       \/ LET j == i + Len(Head(words))
          IN At(s, j) \in SpaceChars /\ PhraseAt(s, SkipClass(s, j, SpaceChars), Tail(words))

\* str.contains(summary_re)
summary_re_found(s) == \E ph \in SummaryPhrases : \E i \in 1..Len(s) : PhraseAt(s, i, ph)

\* df.astype(str).agg(" ".join, axis=1) for one row
RECURSIVE row_text(_)
row_text(cells) ==
    IF cells = <<>> THEN <<>>
    ELSE IF Len(cells) = 1 THEN Str(cells[1])
    ELSE Str(cells[1]) \o <<" ">> \o row_text(Tail(cells))

\* the labels of the missing logical fields, transliterated
LabelDate == "Data/Data operatsii"

LabelCredit == "Zarakhovano/Kredyt"

LabelPurpose == "Pryznachennia platezhu"

\* a missing list that stops at the first missing field
MissingFields_FirstOnly(date_col, credit_col, columns) ==
    IF date_col = NoCol THEN <<LabelDate>>
    ELSE IF credit_col = NoCol THEN <<LabelCredit>>
    ELSE IF \E k \in 1..Len(columns) : columns[k] = COL_Pryznachennia THEN <<>>
    ELSE <<LabelPurpose>>

\* the `missing` list of the three checks, in their order
MissingFields(date_col, credit_col, columns) ==
    (IF date_col = NoCol THEN <<LabelDate>> ELSE <<>>)
    \o (IF credit_col = NoCol THEN <<LabelCredit>> ELSE <<>>)
    \o (IF \E k \in 1..Len(columns) : columns[k] = COL_Pryznachennia THEN <<>> ELSE <<LabelPurpose>>)

\* a filter that lets a zero amount through
credit_filter_NotNegative(amt) == ~amt.nan /\ amt.num >= 0

\* the row filter: amt_num > 0 (a NaN compares false)
credit_filter(amt) == ~amt.nan /\ amt.num > 0

\* the positions of the columns called name
Positions(columns, name) == {k \in 1..Len(columns) : columns[k] = name}

Count(S) == Cardinality(S)

Outcome(st, miss, det, res, cnt, dl) ==
    [status |-> st, missing |-> miss, detected |-> det, result |-> res, counters |-> cnt,
     downloads |-> dl]

\* the frame's columns after df.rename(columns=_clean_header)
Columns(file) == [k \in 1..Len(file.headers) |-> clean_header(file.headers[k])]

\* the rows left once the summary/footer rows are dropped; a frame row keeps its
\* index label, the position of the row in the file
KeptRows(file) == {i \in 1..Len(file.rows) : ~summary_re_found(row_text(file.rows[i]))}

\* the members of a set of row labels in ascending order
Ascending(S) == [n \in 1..Count(S) |-> CHOOSE i \in S : Count({j \in S : j < i}) = n - 1]

\* one row of `result`: the extracted fields, the IDs as Int64, Credit as float
Record(i, date, amt, purpose) ==
    [index |-> i,
     Data |-> normalize_date_series(date),
     VD |-> ToInt64(extract_vd(Str(purpose))),
     VP |-> ToInt64(extract_vp(Str(purpose))),
     IPN |-> ToInt64(extract_ipn(Str(purpose))),
     CaseID |-> ToInt64(extract_caseid(Str(purpose))),
     Credit |-> amt,
     PIB |-> extract_name(Str(purpose)),
     Purpose |-> purpose]

Found(res, id) == Count({n \in 1..Len(res) : ~res[n][id].na})

\* the Summary numbers
Summary(res, total, positive) ==
    [total_rows |-> total,
     credit_pos_rows |-> positive,
     cnt_vp |-> Found(res, "VP"),
     cnt_vd |-> Found(res, "VD"),
     cnt_ipn |-> Found(res, "IPN"),
     cnt_caseid_found |-> Found(res, "CaseID"),
     cnt_nothing_found |-> Count({n \in 1..Len(res) :
         \A id \in {"VP", "VD", "IPN", "CaseID"} : res[n][id].na})]

\* the downloads and the summary
Emit(flt, res, total, positive) ==
    \* no Excel writer is installed: the CSV button is already on the page
    IF flt = "writer_missing"
    THEN Outcome("engine_missing", <<>>, <<>>, res, NoCounters, {"parsed_statement.csv"})
    ELSE Outcome("done", <<>>, <<>>, res, Summary(res, total, positive),
                 {"parsed_statement.csv", "parsed_statement.xlsx"})

\* the rows with credit > 0, extracted
Extract(file, flt, kept, dateAt, creditAt, purposeAt, amt_num) ==
    LET pos == Ascending({i \in kept : credit_filter(amt_num[i])})
    IN Emit(flt,
            [n \in 1..Len(pos) |->
                Record(pos[n], file.rows[pos[n]][dateAt], amt_num[pos[n]],
                       file.rows[pos[n]][purposeAt])],
            Count(kept), Len(pos))

\* the frame with its required columns resolved
Resolved(file, flt, columns, date_col, credit_col, miss) ==
    \* st.error, st.write("Detected headers:", ...), st.stop()
    IF miss # <<>> THEN Outcome("missing", miss, columns, <<>>, NoCounters, {})
    \* a required name that two columns carry selects a frame, not a series:
    \* parse_amount, pd.to_datetime and the column assignment raise
    ELSE IF \/ Count(Positions(columns, date_col)) > 1
            \/ Count(Positions(columns, credit_col)) > 1
            \/ Count(Positions(columns, COL_Pryznachennia)) > 1
    THEN Outcome("error", <<>>, <<>>, <<>>, NoCounters, {})
    ELSE Extract(file, flt, KeptRows(file),
                 Min(Positions(columns, date_col)),
                 Min(Positions(columns, credit_col)),
                 Min(Positions(columns, COL_Pryznachennia)),
                 [i \in 1..Len(file.rows) |->
                     parse_amount(file.rows[i][Min(Positions(columns, credit_col))])])

Resolve(file, flt, columns, date_col, credit_col) ==
    Resolved(file, flt, columns, date_col, credit_col,
             MissingFields(date_col, credit_col, columns))

\* the body of `if uploaded:` for the frame read from the upload
Pipeline(file, flt) ==
    \* import xlrd fails: except ModuleNotFoundError
    IF flt = "reader_missing" THEN Outcome("engine_missing", <<>>, <<>>, <<>>, NoCounters, {})
    \* the reader rejects the file: except Exception
    ELSE IF flt = "read_failed" THEN Outcome("error", <<>>, <<>>, <<>>, NoCounters, {})
    ELSE Resolve(file, flt, Columns(file),
                 pick_col(Columns(file), <<COL_Data, COL_DataOperatsii>>),
                 pick_col(Columns(file), <<COL_Zarakhovano, COL_Kredyt>>))

----------------------------------------------------------------------------
(* The session before anything has happened *)

NoFile == [name |-> "none", headers |-> <<>>, rows |-> <<>>]

NoSubmit == <<>>

AppStart ==
    /\ auth = "absent"
    /\ screen = "login"
    /\ loginError = FALSE
    /\ lastSubmit = NoSubmit
    /\ uploaded = NoFile
    /\ fault = "none"
    /\ status = "none"
    /\ missing = <<>>
    /\ detected = <<>>
    /\ result = <<>>
    /\ counters = NoCounters
    /\ downloads = {}

----------------------------------------------------------------------------
(* The script runs of one browser session (src/app.py:9-25, 125-130, 268-269) *)

\* CREDENTIALS = {"CitiUser1": "Citi43@!"}
CREDENTIALS == [u \in {"CitiUser1"} |-> "Citi43@!"]

Logins == {"CitiUser1", "CitiUser2", ""}

Passwords == {"Citi43@!", "citi43@!", ""}

\* a login that is no key of the map, or the wrong password for it, is refused
CredentialsOk_AnyPassword(u, p) == u \in DOMAIN CREDENTIALS

\* u in CREDENTIALS and CREDENTIALS[u] == p
CredentialsOk(u, p) == u \in DOMAIN CREDENTIALS /\ CREDENTIALS[u] = p

\* one run of the script from its top: what the session holds and the page
\* shows after it. submit is the login form's values when the run was started
\* by the form's button, NoSubmit otherwise.
ScriptRun(submit, file, flt) ==
    IF auth # "True"
    THEN \* login(); st.stop()
         [auth |-> IF submit # NoSubmit /\ CredentialsOk(submit[1], submit[2])
                   THEN "True" ELSE auth,
          loginError |-> submit # NoSubmit /\ ~CredentialsOk(submit[1], submit[2]),
          screen |-> "login",
          lastSubmit |-> submit,
          out |-> Outcome("none", <<>>, <<>>, <<>>, NoCounters, {})]
    ELSE [auth |-> auth,
          loginError |-> FALSE,
          screen |-> "app",
          lastSubmit |-> NoSubmit,
          out |-> IF file = NoFile
                  \* st.info("Please upload a file ...")
                  THEN Outcome("info", <<>>, <<>>, <<>>, NoCounters, {})
                  ELSE Pipeline(file, flt)]

\* the session and the page take what the run left
Shows(run) ==
    /\ auth' = run.auth
    /\ loginError' = run.loginError
    /\ screen' = run.screen
    /\ lastSubmit' = run.lastSubmit
    /\ status' = run.out.status
    /\ missing' = run.out.missing
    /\ detected' = run.out.detected
    /\ result' = run.out.result
    /\ counters' = run.out.counters
    /\ downloads' = run.out.downloads

\* the statements the session can upload
MaxRows == 2

H_Number == <<"numero">>

DateHeaders ==
    { <<>>,
      << <<"C_de", "c_a", "c_te", "c_a", " ">> >>,
      << <<"bom", "C_de", "c_a", "c_te", "c_a", "nbsp", "c_o", "c_pe", "c_ie", "c_er", "c_a",
           "c_tse", "c_ui", "c_yi">> >>,
      << COL_DataOperatsii, COL_Data >> }

CreditHeaders ==
    { <<>>,
      << COL_Zarakhovano >>,
      << <<" ", "C_ka", "c_er", "c_ie", "c_de", "c_i", "c_te">> >>,
      << COL_Zarakhovano, COL_Zarakhovano \o <<" ">> >> }

PurposeHeaders ==
    { <<>>,
      << <<"C_pe", "c_er", "c_i", "c_ze", "c_en", "c_a", "c_che", "c_ie", "c_en", "c_en",
           "c_ya", " ", " ", "c_pe", "c_el", "c_a", "c_te", "c_ie", "c_zhe", "c_u">> >>,
      << <<"c_pe", "c_er", "c_i", "c_ze", "c_en", "c_a", "c_che", "c_ie", "c_en", "c_en",
           "c_ya", " ", "c_pe", "c_el", "c_a", "c_te", "c_ie", "c_zhe", "c_u">> >> }

D_ok == <<"0", "1", ".", "0", "2", ".", "2", "0", "2", "3">>

\* the two rows of the end-to-end example
RowDebtor ==
    [date |-> D_ok,
     credit |-> <<"1", " ", "0", "0", "0", ",", "0", "0">>,
     purpose |-> <<"C_be", "c_o", "c_er", "c_zhe", "c_en", "c_i", "c_ka", ":", " ", "C_ui", "c_ve",
                   "c_a", "c_en", "c_o", "c_ve", " ", "C_pe", "c_ie", "c_te", "c_er", "c_o", " ",
                   "C_es", "c_ie", "c_er", "c_ghe", "c_ui", "c_shorti", "c_o", "c_ve", "c_i",
                   "c_che", " ", "C_ve", "C_de", "numero", "1", "2", "3", "4", "5", " ", "C_ve",
                   "C_pe", "numero", "8", "7", "6", "5", "4", "3", "2", "1">>]

RowFee ==
    [date |-> D_ok,
     credit |-> <<"0">>,
     purpose |-> <<"s", "e", "r", "v", "i", "c", "e", " ", "f", "e", "e">>]

\* a report trailer with a positive turnover
RowFooter ==
    [date |-> NaN,
     credit |-> <<"5", "nbsp", "0", "0", "0", ",", "0", "0">>,
     purpose |-> <<"C_ve", "c_es", "c_soft", "c_o", "c_ghe", "c_o", " ", "c_ze", "c_a", " ", "c_o",
                   "c_be", "c_o", "c_er", "c_o", "c_te", "c_a", "c_em", "c_i", ":">>]

\* an amount that is no number
RowDash ==
    [date |-> D_ok,
     credit |-> <<"emdash">>,
     purpose |-> <<"C_ui", "C_pe", "C_en", " ", "1", "2", "3", "4", "5", "6", "7", "8", "9", "9">>]

RowDebit ==
    [date |-> D_ok,
     credit |-> <<"-", "1", "5", ",", "5", "0">>,
     purpose |-> <<"C_ve", "C_de", " ", "1", "2", "3", "4", "5">>]

\* a date that does not parse, a missing-value-free narrative with three identifiers
RowCase ==
    [date |-> <<"n", "/", "a">>,
     credit |-> <<"2", "5", "0", ".", "5">>,
     purpose |-> <<"c_ui", "c_de", "c_ie", "c_en", ":", " ", "1", "2", "3", "4", "5", "6", ";",
                   " ", "1", "2", "3", "4", "5", "6", "7", "8", "9", "9", " ", "C_ve", "C_pe",
                   "numero", " ", "6", "1", "2", "3", "4", "5", "6", "7">>]

RowContents == {RowDebtor, RowFee, RowFooter, RowDash, RowDebit, RowCase}

RECURSIVE Batches(_)
Batches(n) ==
    IF n = 0 THEN {<<>>}
    ELSE LET shorter == Batches(n - 1)
         IN shorter \cup {b \o <<r>> : b \in shorter, r \in RowContents}

Repeat(x, n) == [k \in 1..n |-> x]

\* the frame a reader returns: a numbering column, then the date, credit and
\* purpose columns the statement has, every row with one cell per column
FileOf(dh, ch, ph, batch) ==
    [name |-> "statement",
     headers |-> <<H_Number>> \o dh \o ch \o ph,
     rows |-> [i \in 1..Len(batch) |->
                  <<NaN>> \o Repeat(batch[i].date, Len(dh)) \o Repeat(batch[i].credit, Len(ch))
                  \o Repeat(batch[i].purpose, Len(ph))]]

Files == {FileOf(dh, ch, ph, b) :
            dh \in DateHeaders, ch \in CreditHeaders, ph \in PurposeHeaders, b \in Batches(MaxRows)}

Faults == {"none", "reader_missing", "read_failed", "writer_missing"}

\* the Enter button of the login form
SubmitLogin ==
    /\ screen = "login"
    /\ \E u \in Logins, p \in Passwords : Shows(ScriptRun(<<u, p>>, uploaded, fault))
    /\ UNCHANGED <<uploaded, fault, fn, arg, ret>>

\* any interaction that reruns the script with the widgets as they are
Rerun ==
    /\ Shows(ScriptRun(NoSubmit, uploaded, fault))
    /\ UNCHANGED <<uploaded, fault, fn, arg, ret>>

\* a file is put into the uploader (replacing a file gives the same run as
\* removing it and uploading the new one)
Upload ==
    /\ screen = "app"
    /\ uploaded = NoFile
    /\ \E f \in Files, flt \in Faults :
          /\ uploaded' = f
          /\ fault' = flt
          /\ Shows(ScriptRun(NoSubmit, f, flt))
    /\ UNCHANGED <<fn, arg, ret>>

\* the file is removed from the uploader
RemoveFile ==
    /\ screen = "app"
    /\ uploaded # NoFile
    /\ uploaded' = NoFile
    /\ fault' = "none"
    /\ Shows(ScriptRun(NoSubmit, NoFile, "none"))
    /\ UNCHANGED <<fn, arg, ret>>

Init ==
    /\ AppStart
    /\ fn = "idle"
    /\ arg = <<>>
    /\ ret = <<>>

Next == SubmitLogin \/ Rerun \/ Upload \/ RemoveFile

Spec == Init /\ [][Next]_vars

----------------------------------------------------------------------------
(* Direct calls of the helpers on bounded texts *)

MaxSegs == 4

MaxTail == 4

IpnA == <<"1", "2", "3", "4", "5", "6", "7", "8", "9", "9">>

IpnB == <<"2", "0", "0", "0", "0", "0", "0", "0", "0", "9">>

IpnBad == <<"1", "2", "3", "4", "5", "6", "7", "8", "9", "0">>

\* the pieces the narratives of the direct calls are made of: for each group of
\* patterns, the keywords, separators and digit runs its matches depend on
VdSegments ==
    { <<"C_ve", "C_de">>, <<"c_ve", "c_pe">>, <<"numero">>, <<" ">>, <<";">>,
      <<"1", "2", "3", "4", "5">>, <<"9">> }

VpSegments ==
    { <<"C_ve", "C_pe">>, <<"numero">>, <<" ">>, <<";">>,
      <<"6", "1", "2", "3", "4", "5", "6", "7">>, <<"9">> }

IpnSegments == { IpnA, IpnB, IpnBad, <<" ">>, <<"a">>, <<"9">> }

RECURSIVE Concats(_, _)
Concats(segs, n) ==
    IF n = 0 THEN {<<>>}
    ELSE LET shorter == Concats(segs, n - 1)
         IN shorter \cup {t \o g : t \in shorter, g \in segs}

Texts == Concats(VdSegments, MaxSegs) \cup Concats(VpSegments, MaxSegs)
         \cup Concats(IpnSegments, MaxSegs)

TailChars == {"0", "8", "9", "a", "sup2", "ar7"}

RECURSIVE Tails(_)
Tails(n) ==
    IF n = 0 THEN {<<>>}
    ELSE LET shorter == Tails(n - 1)
         IN shorter \cup {t \o <<c>> : t \in shorter, c \in TailChars}

\* strings of 7 to 7 + MaxTail characters that begin 1234567
IpnStrings == {<<"1", "2", "3", "4", "5", "6", "7">> \o t : t \in Tails(MaxTail)}

InitFn ==
    /\ AppStart
    /\ fn = "idle"
    /\ arg \in Texts \cup IpnStrings
    /\ ret = <<>>

CallIsValidIpn ==
    /\ fn = "idle"
    /\ fn' = "is_valid_ipn"
    /\ ret' = is_valid_ipn(arg)
    /\ UNCHANGED <<arg, appVars>>

CallExtractIpn ==
    /\ fn = "idle"
    /\ fn' = "extract_ipn"
    /\ ret' = extract_ipn(arg)
    /\ UNCHANGED <<arg, appVars>>

CallExtractVd ==
    /\ fn = "idle"
    /\ fn' = "extract_vd"
    /\ ret' = extract_vd(arg)
    /\ UNCHANGED <<arg, appVars>>

CallExtractVp ==
    /\ fn = "idle"
    /\ fn' = "extract_vp"
    /\ ret' = extract_vp(arg)
    /\ UNCHANGED <<arg, appVars>>

NextFn == CallIsValidIpn \/ CallExtractIpn \/ CallExtractVd \/ CallExtractVp

SpecFn == InitFn /\ [][NextFn]_vars

----------------------------------------------------------------------------
(* Claims about the helpers, checked under SpecFn *)

\* the control-digit rule as the specification words it, on a text of 10 decimals
ChecksumHolds(s) ==
    LET d == [k \in 1..10 |-> DigitValue(s[k])]
        sum == 5 * d[2] + 7 * d[3] + 9 * d[4] + 4 * d[5] + 6 * d[6] + 10 * d[7]
               + 5 * d[8] + 7 * d[9] - d[1]
    IN d[10] = (sum % 11) % 10

TenDecimals(s) == Len(s) = 10 /\ \A k \in 1..10 : s[k] \in DecimalDigits

\* C1: is_valid_ipn(s) is true exactly when s is 10 decimal digits whose last
\* digit is ((weighted sum of the first nine) mod 11) mod 10, and for every
\* other input it returns false without raising.
C1_ValidExactlyChecksum ==
    fn = "is_valid_ipn" =>
        ret = (IF TenDecimals(arg) /\ ChecksumHolds(arg) THEN "True" ELSE "False")

\* the maximal runs of exactly 10 consecutive digits, whatever surrounds them
MaximalRuns(s) ==
    {i \in 1..Len(s) : /\ AllIn(s, i, 10, DecimalDigits)
                       /\ At(s, i - 1) \notin DecimalDigits
                       /\ At(s, i + 10) \notin DecimalDigits}

ValidRuns(s) == {i \in MaximalRuns(s) : ChecksumHolds(Slice(s, i, i + 9))}

\* C2: extract_ipn returns the first maximal run of exactly 10 digits that passes
\* the checksum, letters around the run included, and the empty result exactly
\* when no such run validates.
C2_FirstValidMaximalRun ==
    fn = "extract_ipn" =>
        ret = (IF ValidRuns(arg) = {} THEN <<>>
               ELSE Slice(arg, Min(ValidRuns(arg)), Min(ValidRuns(arg)) + 9))

\* the enforcement-proceeding marker tokens, case-folded
MarkerTokens == { <<"c_ui", "c_pe">>, <<"c_i", "c_pe">>, <<"c_i", "c_es", "c_pe">>,
                  <<"c_ve", "c_pe">> }

\* a marker token lies within the 10 characters before position g or within the
\* 10 characters after position h
MarkerNear(s, g, h) ==
    \E tok \in MarkerTokens : \E k \in 1..Len(s) :
        /\ LitAt(s, k, tok)
        /\ \/ (k >= g - 10 /\ k + Len(tok) - 1 <= g - 1)
           \/ (k >= h + 1 /\ k + Len(tok) - 1 <= h + 10)

\* the places <<i, g>> where the keyword VD stands at a word start i and, after
\* optional spaces and at most one numero sign, exactly 5 digits stand at g
VdOccurrences(s) ==
    {p \in (1..Len(s)) \X (1..Len(s)) :
        /\ p[2] >= p[1] + 2
        /\ At(s, p[1] - 1) \notin WordChars
        /\ Fold(s[p[1]]) = "c_ve"
        /\ Fold(At(s, p[1] + 1)) = "c_de"
        /\ \A k \in (p[1] + 2)..(p[2] - 1) : s[k] \in SpaceChars \cup {"numero"}
        /\ Cardinality({k \in (p[1] + 2)..(p[2] - 1) : s[k] = "numero"}) <= 1
        /\ AllIn(s, p[2], 5, DecimalDigits)
        /\ At(s, p[2] + 5) \notin WordChars}

FirstVdOccurrence(s) == CHOOSE p \in VdOccurrences(s) : \A q \in VdOccurrences(s) : p[1] <= q[1]

\* C6 as stated: where the VD keyword rule matches and a marker token lies within
\* 10 characters of the matched number, extract_vd returns no VD.
C6_MarkerDiscardsVd ==
    (/\ fn = "extract_vd"
     /\ VdOccurrences(arg) # {}
     /\ MarkerNear(arg, FirstVdOccurrence(arg)[2], FirstVdOccurrence(arg)[2] + 4))
    => ret = <<>>

\* C6 amended: extract_vd applies no marker window; it returns the 5 digits of the
\* leftmost VD occurrence, a marker token within 10 characters or not, and the
\* empty result exactly when there is no occurrence.
C6_VdIgnoresMarkers ==
    fn = "extract_vd" =>
        ret = (IF VdOccurrences(arg) = {} THEN <<>>
               ELSE Slice(arg, FirstVdOccurrence(arg)[2], FirstVdOccurrence(arg)[2] + 4))

\* a VD is returned although a marker token lies within 10 characters of it
C6_Witness ==
    /\ fn = "extract_vd"
    /\ ret # <<>>
    /\ VdOccurrences(arg) # {}
    /\ MarkerNear(arg, FirstVdOccurrence(arg)[2], FirstVdOccurrence(arg)[2] + 4)

\* the places <<i, g>> where the keyword VP stands at i and, after optional spaces
\* and at most one numero sign, exactly 8 digits (no ninth) stand at g
VpExactOccurrences(s) ==
    {p \in (1..Len(s)) \X (1..Len(s)) :
        /\ p[2] >= p[1] + 2
        /\ Fold(s[p[1]]) = "c_ve"
        /\ Fold(At(s, p[1] + 1)) = "c_pe"
        /\ \A k \in (p[1] + 2)..(p[2] - 1) : s[k] \in SpaceChars \cup {"numero"}
        /\ Cardinality({k \in (p[1] + 2)..(p[2] - 1) : s[k] = "numero"}) <= 1
        /\ AllIn(s, p[2], 8, AsciiDigits)
        /\ At(s, p[2] + 8) \notin DecimalDigits}

\* the starts g of an 8-digit sequence that begins with 6 and lies between two
\* semicolons (spaces, and a numero sign before it, allowed)
SemicolonSixes(s) ==
    {g \in 1..Len(s) :
        /\ s[g] = "6"
        /\ AllIn(s, g + 1, 7, DecimalDigits)
        /\ At(s, SkipClass(s, g + 8, SpaceChars)) = ";"
        /\ \E i \in 1..(g - 1) :
              /\ s[i] = ";"
              /\ \A k \in (i + 1)..(g - 1) : s[k] \in SpaceChars \cup {"numero"}
              /\ Cardinality({k \in (i + 1)..(g - 1) : s[k] = "numero"}) <= 1
              /\ \A k \in (i + 1)..(g - 1) :
                    s[k] = "numero" => \A j \in (i + 1)..(k - 1) : s[j] \in SpaceChars}

\* C9: extract_vp returns the digits after VP only when exactly 8 digits follow
\* (never the first 8 of a longer run); only when that finds nothing, an 8-digit
\* sequence beginning with 6 between two semicolons; otherwise the empty result.
C9_ExactlyEightThenSemicolon ==
    fn = "extract_vp" =>
        ret = (IF VpExactOccurrences(arg) # {}
               THEN LET p == CHOOSE q \in VpExactOccurrences(arg) :
                                 \A r \in VpExactOccurrences(arg) : q[1] <= r[1]
                    IN Slice(arg, p[2], p[2] + 7)
               ELSE IF SemicolonSixes(arg) # {}
               THEN Slice(arg, Min(SemicolonSixes(arg)), Min(SemicolonSixes(arg)) + 7)
               ELSE <<>>)

----------------------------------------------------------------------------
(* Claims about the session and the pipeline, checked under Spec *)

\* the normalized headers resolve no column for a logical field
NoDateColumn(file) ==
    \A k \in 1..Len(file.headers) : Columns(file)[k] \notin {COL_Data, COL_DataOperatsii}

NoCreditColumn(file) ==
    \A k \in 1..Len(file.headers) : Columns(file)[k] \notin {COL_Zarakhovano, COL_Kredyt}

NoPurposeColumn(file) ==
    \A k \in 1..Len(file.headers) : Columns(file)[k] # COL_Pryznachennia

\* the column a logical field resolves to: the first candidate a column carries
FieldColumns(file, first, second) ==
    IF Positions(Columns(file), first) # {} THEN Positions(Columns(file), first)
    ELSE Positions(Columns(file), second)

\* every logical field resolves to exactly one column, and nothing fails around
\* the pipeline
Processable ==
    /\ screen = "app"
    /\ uploaded # NoFile
    /\ fault = "none"
    /\ Cardinality(FieldColumns(uploaded, COL_Data, COL_DataOperatsii)) = 1
    /\ Cardinality(FieldColumns(uploaded, COL_Zarakhovano, COL_Kredyt)) = 1
    /\ Cardinality(Positions(Columns(uploaded), COL_Pryznachennia)) = 1

\* the credit text of row i normalizes to a number that is present and > 0
PositiveCredit(i) ==
    LET at == CHOOSE k \in FieldColumns(uploaded, COL_Zarakhovano, COL_Kredyt) : TRUE
        a  == parse_amount(uploaded.rows[i][at])
    IN ~a.nan /\ a.num > 0

Emitted(i) == \E n \in 1..Len(result) : result[n].index = i

FooterRow(i) == summary_re_found(row_text(uploaded.rows[i]))

\* C3 as stated: a row appears in the output if and only if its credit text
\* normalizes to a number > 0, and an unparseable amount aborts nothing.
C3_EmittedIffPositive ==
    Processable =>
        /\ status = "done"
        /\ \A i \in 1..Len(uploaded.rows) : Emitted(i) <=> PositiveCredit(i)

\* C3 amended: a row appears in the output if and only if it is no footer/summary
\* row and its credit text normalizes to a number > 0; an unparseable amount
\* aborts nothing.
C3_EmittedIffPositiveDataRow ==
    Processable =>
        /\ status = "done"
        /\ \A i \in 1..Len(uploaded.rows) : Emitted(i) <=> (~FooterRow(i) /\ PositiveCredit(i))

\* a run that emits a row, drops a footer row with a positive amount and drops a
\* row whose amount is no number or not positive
C3_Witness ==
    /\ Processable
    /\ status = "done"
    /\ \E i, j \in 1..Len(uploaded.rows) :
          /\ Emitted(i)
          /\ ~Emitted(j)
          /\ (FooterRow(j) /\ PositiveCredit(j)) \/ ~PositiveCredit(j)

\* C4: when a required logical field resolves to no column, the run halts
\* reporting every missing field and all detected headers, and produces no
\* record, no download and no summary.
C4_MissingColumnsHalt ==
    (/\ screen = "app"
     /\ uploaded # NoFile
     /\ fault \notin {"reader_missing", "read_failed"}
     /\ NoDateColumn(uploaded) \/ NoCreditColumn(uploaded) \/ NoPurposeColumn(uploaded))
    => /\ status = "missing"
       /\ (\E k \in 1..Len(missing) : missing[k] = LabelDate) <=> NoDateColumn(uploaded)
       /\ (\E k \in 1..Len(missing) : missing[k] = LabelCredit) <=> NoCreditColumn(uploaded)
       /\ (\E k \in 1..Len(missing) : missing[k] = LabelPurpose) <=> NoPurposeColumn(uploaded)
       /\ Len(detected) = Len(uploaded.headers)
       /\ \A k \in 1..Len(detected) : detected[k] = clean_header(uploaded.headers[k])
       /\ result = <<>>
       /\ downloads = {}
       /\ counters = NoCounters

\* a halted run that reports more than one missing field
C4_Witness ==
    /\ status = "missing"
    /\ Len(missing) >= 2
    /\ Len(detected) >= 2

\* the upload is the two-row batch of the end-to-end example
ExampleBatch ==
    \E dh \in DateHeaders, ch \in CreditHeaders, ph \in PurposeHeaders :
        uploaded = FileOf(dh, ch, ph, <<RowDebtor, RowFee>>)

\* C5: for the two-row example the pipeline keeps only row 1 and emits VD 12345,
\* VP 87654321, the debtor's name, no IPN and no CaseID, with total 2 and
\* creditPositive 1.
C5_EndToEndExample ==
    (ExampleBatch /\ status = "done") =>
        /\ Len(result) = 1
        /\ result[1].index = 1
        /\ result[1].VD = [na |-> FALSE, v |-> 12345]
        /\ result[1].VP = [na |-> FALSE, v |-> 87654321]
        /\ result[1].IPN.na
        /\ result[1].CaseID.na
        /\ result[1].PIB = <<"C_ui", "c_ve", "c_a", "c_en", "c_o", "c_ve", " ", "C_pe", "c_ie",
                             "c_te", "c_er", "c_o", " ", "C_es", "c_ie", "c_er", "c_ghe", "c_ui",
                             "c_shorti", "c_o", "c_ve", "c_i", "c_che">>
        /\ counters.total_rows = 2
        /\ counters.credit_pos_rows = 1

C5_Witness == ExampleBatch /\ status = "done" /\ Len(result) = 1

\* C8: in a completed run, total is the number of rows of the input batch, and
\* creditPositive is the number of rows passing the amount filter, which is the
\* number of records emitted.
C8_CountersMatchBatch ==
    status = "done" =>
        /\ counters.total_rows = Len(uploaded.rows)
        /\ counters.credit_pos_rows = Len(result)
        /\ counters.credit_pos_rows = Cardinality({i \in 1..Len(uploaded.rows) : Emitted(i)})

\* C10: while the auth flag is not true a run reads no upload, extracts nothing
\* and offers no download; the flag turns true only by a form submission with a
\* login of the credential map and its password; a failed submission leaves the
\* flag as it was; once true it stays true.
C10_AuthGate ==
    [][ /\ auth # "True" =>
            /\ status' = "none"
            /\ result' = <<>>
            /\ counters' = NoCounters
            /\ downloads' = {}
            /\ uploaded' = NoFile
        /\ (auth # "True" /\ auth' = "True") => lastSubmit' = <<"CitiUser1", "Citi43@!">>
        /\ (lastSubmit' # NoSubmit /\ lastSubmit' # <<"CitiUser1", "Citi43@!">>) => auth' = auth
        /\ auth = "True" => auth' = "True"
      ]_vars

\* the flag was just set by a valid submission; the page still shows no upload
C10_Witness ==
    /\ auth = "True"
    /\ screen = "login"
    /\ lastSubmit = <<"CitiUser1", "Citi43@!">>
    /\ status = "none"

====
